---- MODULE Spec2Model ----
(***************************************************************************)
(* Model of the inplace-iter crate: the base cursor InplaceVecIterator     *)
(* with its item handle InplaceVecItem (src/src/inplace_vec_iterator.rs)   *)
(* and the deferred-commit cursor InplaceRemovableConfirmVecIterator with  *)
(* its item handle (src/src/removable_confirm_iterator_vec.rs).            *)
(*                                                                         *)
(* Indices are the 0-based indices of the Rust code; At(v, i) reads the    *)
(* TLA+ sequence at i + 1.  An element is a record [id, val]: val is the   *)
(* value the program sees, id is the identity of the object (its position  *)
(* in the vector at cursor creation).                                      *)
(*                                                                         *)
(* The caller holds at most two handles: the one the latest advance()      *)
(* issued (slot CUR) and the one it superseded most recently (slot OLD).   *)
(***************************************************************************)
EXTENDS Integers, Sequences, FiniteSets, TLC

\* ------------------------------------------------------------------ bounds
MaxLen == 3        \* longest vector a cursor is created over
NumValues == 2     \* element values are 1..NumValues
MaxWrites == 1     \* elements the caller writes through get_mut

Values == 1..NumValues
MaxIndex == MaxLen + 1   \* advance() is not called once index has reached this
None == -1         \* Option::None of an Option<usize>
NoHandle == 0      \* Option::None of last_rotten, "no handle" elsewhere
NoValue == 0       \* an operation that returns no element value
CUR == 1           \* the handle the latest advance() issued
OLD == 2           \* the handle superseded most recently

VARIABLES
    kind,        \* "base": InplaceVecIterator, "confirm": InplaceRemovableConfirmVecIterator
    guard,       \* cfg(feature = "loop-lifetime-guard")
    vec,         \* the Vec<T> behind the data pointer
    removed,     \* cursor field removed
    index,       \* cursor field index (None or a usize)
    size,        \* cursor field size (deferred cursor only)
    last_rotten, \* cursor field last_rotten: the handle owning the active flag
    handles,     \* the handles the caller holds, <<CUR, OLD>>, each
                 \* [index, rotten, consumed, elem]; consumed: there is no
                 \* such handle, or it was moved into remove/take
    cursor,      \* "open", "dropped", "confirmed", "cancelled"
    pc,          \* "run", "panic" (a panic! or failed unwrap), "ub" (undefined behaviour)
    orig,        \* the vector at cursor creation
    last,        \* the last operation: [op, h, ret]
    issued,      \* ids of the elements handles were issued for in the current pass
    gone,        \* ids of the elements removed or taken through a handle
    nremoves,    \* number of remove/take calls that went through
    mutated,     \* ids of the elements written through get_mut
    written,     \* per element, the value last written through get_mut
    exhausted,   \* advance() has returned None in the current pass
    iterated,    \* iter() has been called
    pass_size    \* size when the current pass started (deferred cursor)

vars == <<kind, guard, vec, removed, index, size, last_rotten, handles, cursor,
          pc, orig, last, issued, gone, nremoves, mutated, written, exhausted,
          iterated, pass_size>>

cursorVars == <<removed, index, size, last_rotten>>
ghostVars ==
    <<issued, gone, nremoves, mutated, written, exhausted, iterated, pass_size>>

\* ------------------------------------------------------------ Vec<T> model
At(v, i) == v[i + 1]

\* Vec::swap_remove(i) for i < len: the last element replaces element i
SwapRemove(v, i) ==
    [ret |-> At(v, i),
     vec |-> [k \in 1..(Len(v) - 1) |-> IF k = i + 1 THEN v[Len(v)] ELSE v[k]]]

\* Vec::pop() on a non-empty vector
Pop(v) == [ret |-> v[Len(v)], vec |-> SubSeq(v, 1, Len(v) - 1)]

\* Vec::swap(a, b)
Swap(v, a, b) ==
    [k \in 1..Len(v) |-> IF k = a + 1 THEN At(v, b)
                         ELSE IF k = b + 1 THEN At(v, a) ELSE v[k]]

\* Vec::truncate(n)
Truncate(v, n) == IF n < Len(v) THEN SubSeq(v, 1, n) ELSE v

\* writing a value through &mut T
SetVal(v, i, x) == [v EXCEPT ![i + 1].val = x]

Ids(v) == [k \in 1..Len(v) |-> v[k].id]
IdSet(v) == {v[k].id : k \in 1..Len(v)}

\* a handle slot that holds no handle; nothing can be done with it
Dead == [index |-> 0, rotten |-> TRUE, consumed |-> TRUE, elem |-> 0]

\* ------------------------------------------------------------------- Init
\* The vector a cursor is created over.  T is a type parameter without any
\* trait bound, so neither cursor inspects an element: the values only label
\* what the caller reads and writes.  Every length up to MaxLen is drawn, with
\* the values 1, 2, ... repeating after NumValues (two equal values occur in
\* one vector as soon as MaxLen > NumValues).
InitVal(k) == ((k - 1) % NumValues) + 1

Init ==
    /\ kind \in {"base", "confirm"}
    /\ guard \in BOOLEAN
    /\ \E n \in 0..MaxLen :
          vec = [k \in 1..n |-> [id |-> k, val |-> InitVal(k)]]
    /\ removed = FALSE
    /\ index = None
    /\ size = IF kind = "confirm" THEN Len(vec) ELSE 0
    /\ last_rotten = NoHandle
    /\ handles = <<Dead, Dead>>
    /\ cursor = "open"
    /\ pc = "run"
    /\ orig = vec
    /\ last = [op |-> "new", h |-> NoHandle, ret |-> NoValue]
    /\ issued = <<>>
    /\ gone = {}
    /\ nremoves = 0
    /\ mutated = {}
    /\ written = [k \in 1..Len(vec) |-> NoValue]
    /\ exhausted = FALSE
    /\ iterated = FALSE
    /\ pass_size = size

\* --------------------------------------------------------- staleness guard
\* a rotten_item that forgets to set the flag
rotten_item_noop(hs, lr) == hs

\* rotten_item: the handle owning the active flag, if any, is marked rotten.
\* Without the feature the method and the flag do not exist.
rotten_item(hs, lr) ==
    IF guard /\ lr # NoHandle /\ ~hs[lr].consumed
    THEN [hs EXCEPT ![lr].rotten = TRUE] ELSE hs

\* a check_rotten that panics whatever the flag says
check_rotten_always(h) == guard

\* check_rotten: TRUE when the handle operation panics
check_rotten(h) == guard /\ handles[h].rotten

HandleIds == {CUR, OLD}

Usable(h) == ~handles[h].consumed

\* the handle is the one the latest advance() issued, and its cursor is alive
Valid(h) == h = CUR /\ Usable(h) /\ cursor = "open"

\* the handles the caller holds after an advance(): the new handle, if any,
\* in CUR, and in OLD the one it superseded
Shift(hs, new) == <<new, IF hs[CUR].consumed THEN hs[OLD] ELSE hs[CUR]>>

\* an advance() that binds the handle to the index after the one it chose
Issue_off_by_one(hs, idx) ==
    /\ handles' = Shift(hs, [index |-> idx + 1, rotten |-> FALSE,
                             consumed |-> FALSE, elem |-> At(vec, idx).id])
    /\ last_rotten' = IF guard THEN CUR ELSE NoHandle
    /\ issued' = Append(issued, At(vec, idx).id)
    /\ last' = [op |-> "next", h |-> CUR, ret |-> NoValue]

\* advance() returns Some(handle bound to idx); hs are the handles after
\* rotten_item
Issue(hs, idx) ==
    /\ handles' = Shift(hs, [index |-> idx, rotten |-> FALSE,
                             consumed |-> FALSE, elem |-> At(vec, idx).id])
    /\ last_rotten' = IF guard THEN CUR ELSE NoHandle
    /\ issued' = Append(issued, At(vec, idx).id)
    /\ last' = [op |-> "next", h |-> CUR, ret |-> NoValue]

\* advance() returns None
NoIssue(hs) ==
    /\ handles' = Shift(hs, Dead)
    /\ last_rotten' = NoHandle
    /\ last' = [op |-> "next", h |-> NoHandle, ret |-> NoValue]
    /\ UNCHANGED issued

\* the caller writes through get_mut to at most MaxWrites elements
MayWrite(i) == At(vec, i).id \in mutated \/ Cardinality(mutated) < MaxWrites

\* ------------------------------------------------------------ base cursor
\* next that starts over after a removal instead of re-using the index
next_index_restart(rem, idx) ==
    IF rem THEN 0
    ELSE IF idx # None THEN idx + 1
    ELSE 0

\* next whose first call initialises the index to 1
next_index_from_one(rem, idx) ==
    IF rem THEN idx
    ELSE IF idx # None THEN idx + 1
    ELSE 1

\* next whose index starts over at 0 once it has passed MaxLen
next_index_wrap(rem, idx) ==
    IF rem THEN idx
    ELSE IF idx # None THEN (idx + 1) % (MaxLen + 1)
    ELSE 0

\* next that moves on after a removal instead of re-using the index
next_index_skip(rem, idx) ==
    IF idx # None THEN idx + 1
    ELSE 0

\* InplaceVecIterator::next, the choice of the index to visit: the index is
\* re-used after a removal, incremented otherwise, 0 at the first call
next_index(rem, idx) ==
    IF rem THEN idx
    ELSE IF idx # None THEN idx + 1
    ELSE 0

\* InplaceVecIterator::next
next ==
    /\ kind = "base" /\ cursor = "open" /\ pc = "run"
    /\ index < MaxIndex
    /\ LET hs == rotten_item(handles, last_rotten) IN
       IF Len(vec) = 0 THEN
            /\ NoIssue(hs)
            /\ exhausted' = TRUE
            /\ UNCHANGED <<removed, index, pc>>
       ELSE IF removed /\ index = None THEN
            \* self.index.unwrap() on None
            /\ NoIssue(hs)
            /\ removed' = FALSE
            /\ pc' = "panic"
            /\ UNCHANGED <<index, exhausted>>
       ELSE LET idx == next_index(removed, index) IN
            /\ removed' = FALSE
            /\ index' = idx
            /\ pc' = pc
            /\ IF idx < Len(vec)
               THEN Issue(hs, idx) /\ UNCHANGED exhausted
               ELSE NoIssue(hs) /\ exhausted' = TRUE
    /\ UNCHANGED <<kind, guard, vec, size, cursor, orig, gone, nremoves,
                   mutated, written, iterated, pass_size>>

\* a Drop that finalises the pass by cutting the vector at the tracked index
drop_truncating ==
    /\ kind = "base" /\ cursor = "open" /\ pc = "run"
    /\ handles' = rotten_item(handles, last_rotten)
    /\ last_rotten' = NoHandle
    /\ cursor' = "dropped"
    /\ vec' = IF index = None THEN vec ELSE Truncate(vec, index)
    /\ last' = [op |-> "drop", h |-> NoHandle, ret |-> NoValue]
    /\ UNCHANGED <<kind, guard, removed, index, size, pc, orig>>
    /\ UNCHANGED ghostVars

\* a Drop that resets the index as well
drop_resetting ==
    /\ kind = "base" /\ cursor = "open" /\ pc = "run"
    /\ handles' = rotten_item(handles, last_rotten)
    /\ last_rotten' = NoHandle
    /\ cursor' = "dropped"
    /\ index' = None
    /\ last' = [op |-> "drop", h |-> NoHandle, ret |-> NoValue]
    /\ UNCHANGED <<kind, guard, vec, removed, size, pc, orig>>
    /\ UNCHANGED ghostVars

\* a Drop that leaves the active flag alone
drop_silent ==
    /\ kind = "base" /\ cursor = "open" /\ pc = "run"
    /\ cursor' = "dropped"
    /\ last' = [op |-> "drop", h |-> NoHandle, ret |-> NoValue]
    /\ UNCHANGED <<kind, guard, vec, handles, pc, orig>>
    /\ UNCHANGED cursorVars
    /\ UNCHANGED ghostVars

\* Drop for InplaceVecIterator
drop ==
    /\ kind = "base" /\ cursor = "open" /\ pc = "run"
    /\ handles' = rotten_item(handles, last_rotten)
    /\ last_rotten' = NoHandle
    /\ cursor' = "dropped"
    /\ last' = [op |-> "drop", h |-> NoHandle, ret |-> NoValue]
    /\ UNCHANGED <<kind, guard, vec, removed, index, size, pc, orig>>
    /\ UNCHANGED ghostVars

\* a handle operation that panics in check_rotten
Fault ==
    /\ pc' = "panic"
    /\ last' = [op |-> "fault", h |-> NoHandle, ret |-> NoValue]
    /\ UNCHANGED <<kind, guard, vec, cursor, orig, handles>>
    /\ UNCHANGED cursorVars
    /\ UNCHANGED ghostVars

\* a handle operation that passed check_rotten on a handle that a later
\* advance() superseded or that outlived its cursor: undefined behaviour by
\* the documented contract of the handle methods.  The behaviour ends in a
\* state that stands for every outcome; only pc is meaningful in it.
Undefined ==
    /\ pc' = "ub"
    /\ last' = [op |-> "ub", h |-> NoHandle, ret |-> NoValue]
    /\ UNCHANGED <<kind, guard, vec, cursor, orig, handles>>
    /\ UNCHANGED cursorVars
    /\ UNCHANGED ghostVars

\* InplaceVecItem::take_value, the branch taken: pop when the bound index
\* equals the length of the vector, swap_remove otherwise
take_value_path(v, i) == IF i = Len(v) THEN "pop" ELSE "swap_remove"

\* take_value that removes the first element whatever the bound index is
take_value_vec_first(v, i) == SwapRemove(v, 0)

\* take_value with Vec::remove in place of Vec::swap_remove: the elements
\* after i move down by one
take_value_vec_shift(v, i) ==
    IF i = Len(v) THEN Pop(v)
    ELSE [ret |-> At(v, i),
          vec |-> [k \in 1..(Len(v) - 1) |-> IF k < i + 1 THEN v[k] ELSE v[k + 1]]]

\* InplaceVecItem::take_value, the removal from the vector: pop when the
\* bound index equals the length, swap_remove otherwise
take_value_vec(v, i) ==
    IF take_value_path(v, i) = "pop" THEN Pop(v) ELSE SwapRemove(v, i)

\* InplaceVecItem::take_value on a handle that passed check_rotten: the
\* value it returns and the vector and the flag it leaves
take_value(h) ==
    LET i == handles[h].index IN
    IF (i = Len(vec) /\ Len(vec) = 0) \/ i > Len(vec)
    THEN \* pop().unwrap() on an empty vector, or swap_remove with an index
         \* out of bounds
         [panic |-> TRUE, removed |-> TRUE, vec |-> vec, ret |-> NoValue]
    ELSE LET r == take_value_vec(vec, i) IN
         [panic |-> FALSE, removed |-> TRUE, vec |-> r.vec, ret |-> r.ret.val]

\* RemovableItem::remove / RemovableItemMut::remove for InplaceVecItem:
\* let _ = self.take_value()
remove_result(h) == [take_value(h) EXCEPT !.ret = NoValue]

\* a take that returns the value at the end of the vector
take_result_last(h) ==
    [take_value(h) EXCEPT !.ret = IF Len(vec) = 0 THEN NoValue
                                  ELSE vec[Len(vec)].val]

\* TakeableItem::take / TakeableItemMut::take for InplaceVecItem:
\* self.take_value()
take_result(h) == take_value(h)

\* a call of remove or take, which moves the handle into the method
Consume(h, opname, res) ==
    /\ kind = "base" /\ pc = "run" /\ Usable(h)
    /\ IF check_rotten(h) THEN Fault
       ELSE IF ~Valid(h) THEN Undefined
       ELSE /\ handles' = [handles EXCEPT ![h] = Dead]
            /\ removed' = res.removed
            /\ vec' = res.vec
            /\ pc' = IF res.panic THEN "panic" ELSE pc
            /\ gone' = IF res.panic THEN gone ELSE gone \cup {handles[h].elem}
            /\ nremoves' = IF res.panic THEN nremoves ELSE nremoves + 1
            /\ last' = [op |-> opname, h |-> h, ret |-> res.ret]
            /\ UNCHANGED <<kind, guard, cursor, orig, index, size,
                           last_rotten, issued, mutated, written, exhausted,
                           iterated, pass_size>>

remove(h) == Consume(h, "remove", remove_result(h))

take(h) == Consume(h, "take", take_result(h))

\* InplaceVecItem::get_value on a handle that passed check_rotten
get_result(h) == At(vec, handles[h].index).val

\* a read that takes the element out of the vector
get_value_taking(h) == take(h)

\* InplaceVecItem::get_value
get_value(h) ==
    /\ kind = "base" /\ pc = "run" /\ Usable(h)
    /\ IF check_rotten(h) THEN Fault
       ELSE IF ~Valid(h) \/ handles[h].index >= Len(vec) THEN Undefined
       ELSE /\ last' = [op |-> "get", h |-> h, ret |-> get_result(h)]
            /\ UNCHANGED <<kind, guard, vec, cursor, pc, orig, handles>>
            /\ UNCHANGED cursorVars
            /\ UNCHANGED ghostVars

\* InplaceVecItem::get_value_mut, and the write of x through the reference
get_value_mut(h, x) ==
    /\ kind = "base" /\ pc = "run" /\ Usable(h)
    /\ IF check_rotten(h) THEN Fault
       ELSE IF ~Valid(h) \/ handles[h].index >= Len(vec) THEN Undefined
       ELSE LET i == handles[h].index IN
            /\ MayWrite(i)
            /\ last' = [op |-> "get_mut", h |-> h, ret |-> x]
            /\ vec' = SetVal(vec, i, x)
            /\ mutated' = mutated \cup {At(vec, i).id}
            /\ written' = [written EXCEPT ![At(vec, i).id] = x]
            /\ UNCHANGED <<kind, guard, cursor, pc, orig, handles,
                           issued, gone, nremoves, exhausted, iterated,
                           pass_size>>
            /\ UNCHANGED cursorVars

\* ------------------------------------------- the two older base cursors
\* RemovableVecIterator with RemovableVecItem, and TakeableVecIterator with
\* TakeableVecItem, as functions on a record of their fields:
\*   vec, removed (the field removed / taken), index, owner (last_rotten is
\*   Some), handle (the index the item of the latest call is bound to, None
\*   when the call returned None or the item was consumed), rotten (the flag
\*   of that item), ret (the value returned), panic.

\* RemovableVecIterator::next
RemovableVecIterator_next(c) ==
    LET none == [c EXCEPT !.owner = FALSE, !.handle = None,
                          !.rotten = FALSE, !.ret = NoValue]
    IN  IF Len(c.vec) = 0 THEN none
        ELSE IF c.removed /\ c.index = None
        THEN [none EXCEPT !.removed = FALSE, !.panic = TRUE]
        ELSE LET idx == IF c.removed THEN c.index
                        ELSE IF c.index # None THEN c.index + 1
                        ELSE 0
             IN  IF idx < Len(c.vec)
                 THEN [none EXCEPT !.removed = FALSE, !.index = idx,
                                   !.owner = guard, !.handle = idx]
                 ELSE [none EXCEPT !.removed = FALSE, !.index = idx]

\* Drop for RemovableVecIterator
RemovableVecIterator_drop(c) ==
    IF guard /\ c.owner
    THEN [c EXCEPT !.owner = FALSE, !.rotten = (c.handle # None)]
    ELSE c

\* RemovableItem::remove for RemovableVecItem
RemovableVecItem_remove(c) ==
    LET i == c.handle
        gone_ == [c EXCEPT !.removed = TRUE, !.handle = None, !.ret = NoValue]
    IN  IF guard /\ c.rotten THEN [c EXCEPT !.panic = TRUE]
        ELSE IF i = Len(c.vec)
        THEN IF Len(c.vec) = 0 THEN [gone_ EXCEPT !.panic = TRUE]
             ELSE [gone_ EXCEPT !.vec = Pop(c.vec).vec]
        ELSE IF i > Len(c.vec) THEN [gone_ EXCEPT !.panic = TRUE]
        ELSE [gone_ EXCEPT !.vec = SwapRemove(c.vec, i).vec]

\* RemovableItem::get for RemovableVecItem
RemovableVecItem_get(c) ==
    IF guard /\ c.rotten THEN [c EXCEPT !.panic = TRUE]
    ELSE [c EXCEPT !.ret = At(c.vec, c.handle).val]

\* TakeableVecIterator::next
TakeableVecIterator_next(c) ==
    LET none == [c EXCEPT !.owner = FALSE, !.handle = None,
                          !.rotten = FALSE, !.ret = NoValue]
    IN  IF Len(c.vec) = 0 THEN none
        ELSE IF c.removed /\ c.index = None
        THEN [none EXCEPT !.removed = FALSE, !.panic = TRUE]
        ELSE LET idx == IF c.removed THEN c.index
                        ELSE IF c.index # None THEN c.index + 1
                        ELSE 0
             IN  IF idx < Len(c.vec)
                 THEN [none EXCEPT !.removed = FALSE, !.index = idx,
                                   !.owner = guard, !.handle = idx]
                 ELSE [none EXCEPT !.removed = FALSE, !.index = idx]

\* Drop for TakeableVecIterator
TakeableVecIterator_drop(c) ==
    IF guard /\ c.owner
    THEN [c EXCEPT !.owner = FALSE, !.rotten = (c.handle # None)]
    ELSE c

\* a take that keeps the order of the vector, as Vec::remove does
TakeableVecItem_take_ordered(c) ==
    LET i == c.handle IN
    [c EXCEPT !.removed = TRUE, !.handle = None, !.ret = At(c.vec, i).val,
              !.vec = [k \in 1..(Len(c.vec) - 1) |->
                         IF k < i + 1 THEN c.vec[k] ELSE c.vec[k + 1]]]

\* TakeableItem::take for TakeableVecItem
TakeableVecItem_take(c) ==
    LET i == c.handle
        gone_ == [c EXCEPT !.removed = TRUE, !.handle = None, !.ret = NoValue]
    IN  IF guard /\ c.rotten THEN [c EXCEPT !.panic = TRUE]
        ELSE IF i = Len(c.vec)
        THEN IF Len(c.vec) = 0 THEN [gone_ EXCEPT !.panic = TRUE]
             ELSE [gone_ EXCEPT !.vec = Pop(c.vec).vec,
                                !.ret = Pop(c.vec).ret.val]
        ELSE IF i > Len(c.vec) THEN [gone_ EXCEPT !.panic = TRUE]
        ELSE [gone_ EXCEPT !.vec = SwapRemove(c.vec, i).vec,
                           !.ret = SwapRemove(c.vec, i).ret.val]

\* TakeableItem::get for TakeableVecItem
TakeableVecItem_get(c) ==
    IF guard /\ c.rotten THEN [c EXCEPT !.panic = TRUE]
    ELSE [c EXCEPT !.ret = At(c.vec, c.handle).val]

\* ------------------------------------------------- deferred-commit cursor
\* RemovableConfirmIterator::iter
iter ==
    /\ kind = "confirm" /\ cursor = "open" /\ pc = "run"
    /\ index' = None
    /\ iterated' = TRUE
    /\ pass_size' = size
    /\ issued' = <<>>
    /\ exhausted' = FALSE
    /\ last' = [op |-> "iter", h |-> NoHandle, ret |-> NoValue]
    /\ UNCHANGED <<kind, guard, vec, removed, size, last_rotten, handles,
                   cursor, pc, orig, gone, nremoves, mutated, written>>

\* a next_item that does not compare the index with size
below_size_any(idx, sz) == TRUE

\* InplaceRemovableConfirmVecIterator::next_item, the test of the index
\* against size: at or above it the pass is over
below_size(idx, sz) == idx < sz

\* InplaceRemovableConfirmVecIterator::next_item
next_item ==
    /\ kind = "confirm" /\ cursor = "open" /\ pc = "run"
    /\ index < MaxIndex
    /\ LET hs == rotten_item(handles, last_rotten) IN
       IF Len(vec) = 0 THEN
            /\ NoIssue(hs)
            /\ exhausted' = TRUE
            /\ UNCHANGED <<removed, index, pc>>
       ELSE IF removed /\ index = None THEN
            \* self.index.unwrap() on None
            /\ NoIssue(hs)
            /\ removed' = FALSE
            /\ pc' = "panic"
            /\ UNCHANGED <<index, exhausted>>
       ELSE LET idx == next_index(removed, index) IN
            /\ removed' = FALSE
            /\ index' = idx
            /\ pc' = pc
            /\ IF below_size(idx, size) /\ idx < Len(vec)
               THEN Issue(hs, idx) /\ UNCHANGED exhausted
               ELSE NoIssue(hs) /\ exhausted' = TRUE
    /\ UNCHANGED <<kind, guard, vec, size, cursor, orig, gone, nremoves,
                   mutated, written, iterated, pass_size>>

\* a remove_value that exchanges with the physical end of the vector
remove_value_vec_end(v, i, sz) ==
    IF i < Len(v) - 1 THEN Swap(v, i, Len(v) - 1) ELSE v

\* InplaceRemovableConfirmVecItem::remove_value, the exchange in the vector
\* after size has been decremented to sz
remove_value_vec(v, i, sz) ==
    IF i < sz THEN Swap(v, i, sz) ELSE v

\* InplaceRemovableConfirmVecItem::remove_value
\* (RemovableItem::remove / RemovableItemMut::remove call nothing else)
remove_value(h) ==
    /\ kind = "confirm" /\ pc = "run" /\ Usable(h)
    /\ IF check_rotten(h) THEN Fault
       ELSE IF ~Valid(h) THEN Undefined
       ELSE LET i == handles[h].index IN
            /\ handles' = [handles EXCEPT ![h] = Dead]
            /\ removed' = TRUE
            /\ last' = [op |-> "remove", h |-> h, ret |-> NoValue]
            /\ UNCHANGED <<kind, guard, cursor, orig, index,
                           last_rotten, issued, mutated, written, exhausted,
                           iterated, pass_size>>
            /\ IF size = 0 \/ i >= Len(vec) THEN
                    \* size - 1 overflows: a panic in a debug build; in a
                    \* release build size wraps and swap panics on its index
                    /\ pc' = "panic"
                    /\ UNCHANGED <<vec, size, gone, nremoves>>
               ELSE
                    /\ size' = size - 1
                    /\ vec' = remove_value_vec(vec, i, size - 1)
                    /\ pc' = pc
                    /\ gone' = gone \cup {handles[h].elem}
                    /\ nremoves' = nremoves + 1

\* InplaceRemovableConfirmVecItem::get_value
confirm_get_value(h) ==
    /\ kind = "confirm" /\ pc = "run" /\ Usable(h)
    /\ IF check_rotten(h) THEN Fault
       ELSE IF ~Valid(h) \/ handles[h].index >= Len(vec) THEN Undefined
       ELSE /\ last' = [op |-> "get", h |-> h,
                        ret |-> At(vec, handles[h].index).val]
            /\ UNCHANGED <<kind, guard, vec, cursor, pc, orig, handles>>
            /\ UNCHANGED cursorVars
            /\ UNCHANGED ghostVars

\* InplaceRemovableConfirmVecItem::get_value_mut, and the write of x
confirm_get_value_mut(h, x) ==
    /\ kind = "confirm" /\ pc = "run" /\ Usable(h)
    /\ IF check_rotten(h) THEN Fault
       ELSE IF ~Valid(h) \/ handles[h].index >= Len(vec) THEN Undefined
       ELSE LET i == handles[h].index IN
            /\ MayWrite(i)
            /\ last' = [op |-> "get_mut", h |-> h, ret |-> x]
            /\ vec' = SetVal(vec, i, x)
            /\ mutated' = mutated \cup {At(vec, i).id}
            /\ written' = [written EXCEPT ![At(vec, i).id] = x]
            /\ UNCHANGED <<kind, guard, cursor, pc, orig, handles,
                           issued, gone, nremoves, exhausted, iterated,
                           pass_size>>
            /\ UNCHANGED cursorVars

\* the end of a deferred cursor: no method marks the active flag rotten
Destroy(how, v) ==
    /\ kind = "confirm" /\ cursor = "open" /\ pc = "run"
    /\ cursor' = how
    /\ vec' = v
    /\ last' = [op |-> how, h |-> NoHandle, ret |-> NoValue]
    /\ UNCHANGED <<kind, guard, handles, pc, orig>>
    /\ UNCHANGED cursorVars
    /\ UNCHANGED ghostVars

\* a confirm_removals that truncates one element short of the removals
confirm_vec_late(v, sz) == IF sz + 1 < Len(v) THEN Truncate(v, sz + 1) ELSE v

\* RemovableConfirmIterator::confirm_removals, the vector it leaves
confirm_vec(v, sz) == IF sz < Len(v) THEN Truncate(v, sz) ELSE v

\* RemovableConfirmIterator::confirm_removals
confirm_removals == Destroy("confirmed", confirm_vec(vec, size))

\* a cancel_removals that gives every element its original value back
cancel_removals_reverting ==
    Destroy("cancelled", [k \in 1..Len(vec) |-> orig[vec[k].id]])

\* a cancel_removals that truncates as confirm_removals does
cancel_removals_truncating == Destroy("cancelled", confirm_vec(vec, size))

\* RemovableConfirmIterator::cancel_removals
cancel_removals == Destroy("cancelled", vec)

\* a drop of the cursor that commits the removals
confirm_drop_committing == Destroy("dropped", confirm_vec(vec, size))

\* the cursor goes out of scope; the struct has no Drop implementation
confirm_drop == Destroy("dropped", vec)

\* ------------------------------------------------------------------- Next
Next ==
    \/ next
    \/ drop
    \/ \E h \in HandleIds : remove(h)
    \/ \E h \in HandleIds : take(h)
    \/ \E h \in HandleIds : get_value(h)
    \/ \E h \in HandleIds : \E x \in Values : get_value_mut(h, x)
    \/ iter
    \/ next_item
    \/ \E h \in HandleIds : remove_value(h)
    \/ \E h \in HandleIds : confirm_get_value(h)
    \/ \E h \in HandleIds : \E x \in Values : confirm_get_value_mut(h, x)
    \/ confirm_removals
    \/ cancel_removals
    \/ confirm_drop

Spec == Init /\ [][Next]_vars

TypeOK ==
    /\ kind \in {"base", "confirm"}
    /\ guard \in BOOLEAN
    /\ Len(vec) <= MaxLen
    /\ removed \in BOOLEAN
    /\ index \in {None} \cup 0..MaxIndex
    /\ size \in 0..MaxLen
    /\ last_rotten \in {NoHandle, CUR}
    /\ cursor \in {"open", "dropped", "confirmed", "cancelled"}
    /\ pc \in {"run", "panic", "ub"}

\* ================================================================ claims
\* the handles of the base cursor that remove/take act on
BaseTakeStep(h) == kind = "base" /\ Valid(h) /\ (remove(h) \/ take(h))

\* C1: base cursor, swap rule.  remove/take through the valid handle bound
\* to an index i that is not the last position leaves the vector one shorter,
\* with the former last element at position i and every other position
\* below the new length unchanged.
C1_SwapRule ==
    [][\A h \in HandleIds :
         LET i == handles[h].index
             n == Len(vec)
         IN (BaseTakeStep(h) /\ i < n - 1) =>
               /\ Len(vec') = n - 1
               /\ At(vec', i) = At(vec, n - 1)
               /\ \A j \in 0..(n - 2) : j # i => At(vec', j) = At(vec, j)]_vars

\* a removal at a non-last index has happened, in a vector that keeps
\* another element beside the one swapped in
C1_Witness ==
    /\ kind = "base" /\ pc = "run"
    /\ last.op \in {"remove", "take"}
    /\ index < Len(vec)
    /\ Len(vec) >= 2

\* the advance() that follows a removal: what it returns
Reissued(i) ==
    /\ last'.op = "next"
    /\ last'.h = CUR
    /\ handles'[CUR].index = i
    /\ ~handles'[CUR].consumed

ReturnedNone ==
    /\ last'.op = "next"
    /\ last'.h = NoHandle
    /\ handles'[CUR] = Dead

AfterRemoval == kind = "base" /\ last.op \in {"remove", "take"} /\ removed

\* C2 as stated: after a removal through the handle for index i, the next
\* advance() clears the pending flag, keeps the tracked index, and issues a
\* handle for i when i is below the new length and returns exhausted
\* otherwise.
C2_Original ==
    [][(AfterRemoval /\ next) =>
          /\ removed' = FALSE
          /\ index' = index
          /\ IF index < Len(vec) THEN Reissued(index) ELSE ReturnedNone]_vars

\* C2 amended: the pending flag is cleared only when the vector is not
\* empty; when the removal emptied the vector advance() returns exhausted
\* and leaves the flag set.  The index is never incremented by that call.
C2_Revisit ==
    [][(AfterRemoval /\ next) =>
          /\ removed' = (Len(vec) = 0)
          /\ index' = index
          /\ IF index < Len(vec) THEN Reissued(index) ELSE ReturnedNone]_vars

\* the handle issued last revisits an index above 0, the index of the
\* element removed just before it
C2_Witness ==
    /\ kind = "base" /\ pc = "run"
    /\ last.op = "next" /\ last.h = CUR
    /\ Len(issued) >= 2
    /\ issued[Len(issued) - 1] \in gone
    /\ index > 0
    /\ handles[CUR].index = index

\* C3: base cursor, a pass without remove/take.  While nothing was removed
\* or taken the vector holds the same elements in the same order, during the
\* pass, after exhaustion and after the drop of the cursor; it is equal to
\* the vector at cursor creation when nothing was written through get_mut,
\* and an element that was not written through get_mut keeps its value.
C3_NoRemoveUnchanged ==
    (kind = "base" /\ nremoves = 0) =>
        /\ Len(vec) = Len(orig)
        /\ Ids(vec) = Ids(orig)
        /\ \A k \in 1..Len(vec) : vec[k].id \notin mutated => vec[k] = orig[k]
        /\ mutated = {} => vec = orig

\* a pass over a vector of two or more elements ran to exhaustion without
\* a removal or a write, and the cursor was dropped
C3_Witness ==
    /\ kind = "base" /\ pc = "run"
    /\ nremoves = 0 /\ mutated = {}
    /\ exhausted /\ cursor = "dropped"
    /\ Len(issued) = Len(orig) /\ Len(orig) >= 2

\* the elements of a sequence
Range(f) == {f[k] : k \in DOMAIN f}

\* a base pass that has run to exhaustion without a panic or a misuse of a
\* handle
BasePassDone == kind = "base" /\ pc = "run" /\ exhausted

\* C4: base cursor, remove-all pass.  When advance() has returned exhausted
\* and every handle the pass was issued was consumed by remove/take, the
\* vector is empty.
C4_RemoveAllEmpties ==
    (BasePassDone /\ Range(issued) \subseteq gone) => vec = <<>>

\* a remove-all pass over a vector of two or more elements has ended
C4_Witness ==
    /\ BasePassDone
    /\ Len(orig) >= 2
    /\ Len(issued) >= 2
    /\ Range(issued) \subseteq gone

\* C5: base cursor, filter pass.  Whatever handles were consumed, a pass run
\* to exhaustion has issued a handle for every element of the original vector
\* exactly once, and the final vector holds, each once, exactly the elements
\* whose handle was not consumed by remove/take, with the value they had
\* unless it was written through get_mut.
C5_FilterPass ==
    BasePassDone =>
        /\ Len(issued) = Len(orig)
        /\ Range(issued) = IdSet(orig)
        /\ IdSet(vec) = IdSet(orig) \ gone
        /\ Len(vec) = Len(orig) - Cardinality(gone)
        /\ \A k \in 1..Len(vec) :
              vec[k].id \notin mutated => vec[k] = orig[vec[k].id]

\* a filter pass that removed some elements and kept others has ended with
\* the kept elements in another order than at the start
C5_Witness ==
    /\ BasePassDone
    /\ Len(vec) >= 2
    /\ gone # {}
    /\ \E k \in 1..(Len(vec) - 1) : vec[k].id > vec[k + 1].id

\* C6: take on a valid handle returns the value get returns on that handle
\* in the same state, and leaves the vector, the cursor fields and the
\* handles as remove on that handle in the same state leaves them.
C6_TakeIsRemove ==
    [][\A h \in HandleIds :
         (kind = "base" /\ Valid(h) /\ take(h)) =>
            /\ last'.ret = get_result(h)
            /\ vec' = remove_result(h).vec
            /\ removed' = remove_result(h).removed
            /\ (pc' = "panic") = remove_result(h).panic
            /\ handles' = [handles EXCEPT ![h] = Dead]
            /\ UNCHANGED <<index, size, last_rotten, cursor>>]_vars

\* a take has returned the value of an element that was not at the end of
\* the vector, and that differs from the value that was at the end
C6_Witness ==
    /\ kind = "base" /\ pc = "run"
    /\ last.op = "take"
    /\ index < Len(vec)
    /\ At(vec, index).val # last.ret

\* an operation of either handle type on handle h
HandleOp(h) ==
    \/ remove(h)
    \/ take(h)
    \/ get_value(h)
    \/ \E x \in Values : get_value_mut(h, x)
    \/ remove_value(h)
    \/ confirm_get_value(h)
    \/ \E x \in Values : confirm_get_value_mut(h, x)

\* the operation panicked and changed neither the vector nor the cursor
Faulted ==
    /\ pc' = "panic"
    /\ UNCHANGED <<vec, removed, index, size, last_rotten, cursor>>

\* C7: with the guard, for both cursors.  A handle that a later advance()
\* superseded, whether that call issued a handle or returned exhausted, is
\* rotten, and every operation on it panics and changes neither the vector
\* nor the cursor.
C7_SupersededFaults ==
    [][(guard /\ cursor = "open" /\ Usable(OLD) /\ HandleOp(OLD)) =>
          /\ handles[OLD].rotten
          /\ Faulted]_vars

\* an operation on a handle of the deferred cursor has panicked after an
\* advance() that returned exhausted superseded the handle
C7_Witness ==
    /\ guard /\ kind = "confirm" /\ cursor = "open"
    /\ pc = "panic" /\ last.op = "fault"
    /\ Usable(OLD) /\ ~Usable(CUR)
    /\ exhausted

\* C8: base cursor with the guard.  After the drop of the cursor every
\* handle that is still held, the most recently issued one included, is
\* rotten, and every operation on it panics and changes nothing.
C8_DropFaults ==
    [][\A h \in HandleIds :
         (guard /\ kind = "base" /\ cursor = "dropped" /\ Usable(h)
            /\ HandleOp(h)) =>
               /\ handles[h].rotten
               /\ Faulted]_vars

\* an operation on the handle issued last has panicked after the drop of
\* the base cursor, which no advance() had superseded
C8_Witness ==
    /\ guard /\ kind = "base" /\ cursor = "dropped"
    /\ pc = "panic" /\ last.op = "fault"
    /\ Usable(CUR) /\ ~Usable(OLD)

\* C9 as stated: deferred cursor with the guard.  Once the cursor is
\* confirmed, cancelled or dropped, the handle issued last is rotten.
C9_Original ==
    (guard /\ kind = "confirm" /\ cursor # "open" /\ Usable(CUR)) =>
        handles[CUR].rotten

\* C10: deferred cursor.  confirm_removals leaves the prefix of length size
\* of the vector it found; the length of that prefix is the initial length
\* minus the number of removals, it holds each element that was never
\* removed once and no other, and with no removal the vector is unchanged.
C10_ConfirmPrefix ==
    [][confirm_removals =>
          /\ vec' = SubSeq(vec, 1, size)
          /\ Len(vec') = Len(orig) - nremoves
          /\ IdSet(vec') = IdSet(orig) \ gone
          /\ Cardinality(IdSet(vec')) = Len(vec')
          /\ nremoves = 0 => (vec' = vec /\ Ids(vec') = Ids(orig))]_vars

\* a confirm has cut two removed elements off a vector after a second pass
C10_Witness ==
    /\ kind = "confirm" /\ cursor = "confirmed"
    /\ iterated
    /\ nremoves >= 2
    /\ Len(vec) >= 1

\* every element of the vector at cursor creation is in the vector, once,
\* with the value it had unless it was written through get_mut
SameElements ==
    /\ Len(vec) = Len(orig)
    /\ IdSet(vec) = IdSet(orig)
    /\ \A k \in 1..Len(vec) :
          vec[k].id \notin mutated => vec[k] = orig[vec[k].id]

\* C11: deferred cursor.  After any passes and removals, cancel_removals
\* leaves a vector of the length it had at cursor creation, holding every
\* element of that vector once; without writes through get_mut the values
\* are the original ones, so the multiset is the original multiset.
C11_CancelKeepsAll ==
    (kind = "confirm" /\ cursor = "cancelled") => SameElements

\* a cancel after two removals in two passes, without any write, has left
\* the elements in another order than at cursor creation
C11_Witness ==
    /\ kind = "confirm" /\ cursor = "cancelled"
    /\ iterated /\ nremoves >= 2 /\ mutated = {}
    /\ vec # orig

\* a pass of the deferred cursor has run to exhaustion without a panic or a
\* misuse of a handle, and none of the elements it issued was removed
QuietPassDone ==
    /\ kind = "confirm" /\ pc = "run" /\ exhausted
    /\ Range(issued) \cap gone = {}

\* C12: deferred cursor.  A handle next_item has just issued is bound to an
\* index below size and to an element that was not removed through this
\* cursor; a pass run to exhaustion in which nothing was removed has issued
\* exactly the elements not removed so far, each once.
C12_PassSkipsRemoved ==
    /\ (kind = "confirm" /\ last.op = "next" /\ last.h = CUR) =>
          /\ handles[CUR].index < size
          /\ handles[CUR].elem = At(vec, handles[CUR].index).id
          /\ handles[CUR].elem \notin gone
    /\ QuietPassDone =>
          /\ Range(issued) = IdSet(orig) \ gone
          /\ Len(issued) = Len(orig) - Cardinality(gone)

\* a pass started by iter() after a removal has run to exhaustion over the
\* two or more elements that were left
C12_Witness ==
    /\ QuietPassDone
    /\ iterated /\ gone # {}
    /\ Len(issued) >= 2

\* C13 as stated: deferred cursor.  iter() leaves size and the vector
\* unchanged, and the next_item that follows an iter() issues a handle
\* bound to index 0 when size is above 0 and returns exhausted otherwise.
C13_Original ==
    [][/\ iter => UNCHANGED <<size, vec>>
       /\ (kind = "confirm" /\ last.op = "iter" /\ next_item) =>
             /\ pc' = "run"
             /\ IF size > 0 THEN Reissued(0) ELSE ReturnedNone]_vars

\* C14: deferred cursor.  remove through the valid handle bound to index i
\* decrements size by one, exchanges the elements at i and at the new size
\* when i is below it and moves nothing when i equals it, sets the pending
\* flag, and leaves every other position and the length of the vector
\* unchanged.
C14_RemoveValue ==
    [][\A h \in HandleIds :
         LET i == handles[h].index
             s == size - 1
         IN (kind = "confirm" /\ Valid(h) /\ remove_value(h)) =>
               /\ pc' = "run"
               /\ size' = s
               /\ i <= s
               /\ removed' = TRUE
               /\ Len(vec') = Len(vec)
               /\ At(vec', i) = At(vec, s)
               /\ At(vec', s) = At(vec, i)
               /\ \A j \in 0..(Len(vec) - 1) :
                     (j # i /\ j # s) => At(vec', j) = At(vec, j)
               /\ UNCHANGED <<index, last_rotten, cursor>>]_vars

\* a second removal has exchanged an element below the new size with the
\* element at the new size, which is not the end of the vector
C14_Witness ==
    /\ kind = "confirm" /\ pc = "run" /\ cursor = "open"
    /\ last.op = "remove"
    /\ nremoves >= 2
    /\ index < size

\* C15: deferred cursor.  Dropping the cursor without confirm_removals or
\* cancel_removals leaves the vector as cancel_removals leaves it in the
\* same state: both leave the vector they found, with the same length and
\* the same element at every position.
C15_DropIsCancel ==
    [][(cancel_removals \/ confirm_drop) => vec' = vec]_vars

\* a deferred cursor was dropped with removals pending
C15_Witness ==
    /\ kind = "confirm" /\ cursor = "dropped" /\ pc = "run"
    /\ nremoves >= 1
    /\ size < Len(vec)
    /\ vec # orig

\* an advance() of either cursor
Advance == next \/ next_item

\* C16: exhaustion is stable.  advance() over an empty vector returns
\* exhausted; once advance() has returned exhausted, every later advance()
\* of the base cursor, and every later advance() in the same pass of the
\* deferred cursor, returns exhausted again without a panic and without
\* changing the vector.
C16_ExhaustionStable ==
    [][((Len(vec) = 0 \/ exhausted) /\ Advance) =>
          /\ ReturnedNone
          /\ pc' = "run"
          /\ exhausted'
          /\ vec' = vec]_vars

\* advance() was called again after it had returned exhausted on a vector
\* that is not empty
C16_Witness ==
    /\ pc = "run" /\ cursor = "open"
    /\ exhausted
    /\ last.op = "next" /\ last.h = NoHandle
    /\ Len(vec) >= 1
    /\ index > Len(vec)

\* C17: base cursor, removal at the last position.  remove/take through the
\* valid handle bound to the last index leaves the vector one shorter, with
\* every remaining element at the position it had.
C17_LastKeepsOrder ==
    [][\A h \in HandleIds :
         LET n == Len(vec)
         IN (BaseTakeStep(h) /\ handles[h].index = n - 1) =>
               /\ pc' = "run"
               /\ Len(vec') = n - 1
               /\ \A j \in 0..(n - 2) : At(vec', j) = At(vec, j)]_vars

\* the element at the last position of a vector of three or more elements
\* was removed or taken
C17_Witness ==
    /\ kind = "base" /\ pc = "run"
    /\ last.op \in {"remove", "take"}
    /\ index = Len(vec)
    /\ Len(vec) >= 2

\* the handles the caller holds whose flag is not set
NonStale == {h \in HandleIds : Usable(h) /\ ~handles[h].rotten}

\* C18: with the guard, for both cursors.  In every state at most one
\* handle the caller holds is not rotten, and it is the handle the latest
\* advance() issued: the handle issued before it was marked rotten by the
\* advance() that issued the new one.
C18_OneLiveHandle ==
    guard => NonStale \subseteq {CUR}

\* the caller holds two handles: the one just issued, not rotten, and the
\* one issued before it, rotten
C18_Witness ==
    /\ guard /\ pc = "run" /\ cursor = "open"
    /\ last.op = "next" /\ last.h = CUR
    /\ NonStale = {CUR}
    /\ Usable(OLD) /\ handles[OLD].rotten

\* C19 as stated: base cursor.  remove/take through the valid handle bound
\* to the last position of the vector executes the pop branch of
\* take_value, not the swap_remove branch.
C19_Original ==
    [][\A h \in HandleIds :
         (BaseTakeStep(h) /\ handles[h].index = Len(vec) - 1) =>
            take_value_path(vec, handles[h].index) = "pop"]_vars

\* C20: base cursor, frame.  advance() and get never change the vector;
\* get_mut and the drop of the cursor never change its length; a step that
\* changes the length is a remove or a take through a handle, and shortens
\* the vector by exactly one.  (A step into undefined behaviour is outside
\* the statement.)
C20_OnlyRemovalShrinks ==
    [][(kind = "base" /\ pc' # "ub") =>
          /\ (next \/ \E h \in HandleIds : get_value(h)) => vec' = vec
          /\ Len(vec') # Len(vec) =>
                /\ \E h \in HandleIds : remove(h) \/ take(h)
                /\ Len(vec') = Len(vec) - 1]_vars

\* a read through a handle issued after a removal, in a vector that is one
\* element shorter than at cursor creation
C20_Witness ==
    /\ kind = "base" /\ pc = "run"
    /\ last.op = "get"
    /\ nremoves = 1
    /\ Len(vec) = Len(orig) - 1
    /\ Len(vec) >= 1

\* C21: base cursor, a pass without remove/take.  The k-th advance() issues
\* a handle bound to index k - 1, for the element that was at that position
\* at cursor creation, until the index reaches the length and advance()
\* returns exhausted (over an empty vector advance() returns exhausted and
\* the index stays unset); a read returns the element at the bound index
\* and leaves the handle and the vector as they were, so a second read of
\* the same handle returns the same element.
C21_InOrder ==
    (kind = "base" /\ nremoves = 0 /\ pc = "run") =>
        /\ issued = [k \in 1..Len(issued) |-> k]
        /\ Len(issued) <= Len(orig)
        /\ (last.op = "next" /\ last.h = CUR) =>
              /\ handles[CUR].index = Len(issued) - 1
              /\ index = Len(issued) - 1
        /\ exhausted =>
              /\ Len(issued) = Len(orig)
              /\ Len(orig) > 0 => index >= Len(orig)
        /\ (index # None /\ ~exhausted) => index = Len(issued) - 1
        /\ last.op = "get" =>
              /\ Valid(CUR)
              /\ get_result(CUR) = last.ret

\* the pass has issued handles for indices 0, 1, 2 and advance() has then
\* returned exhausted, the cursor still being open
C21_Witness ==
    /\ kind = "base" /\ pc = "run" /\ cursor = "open"
    /\ nremoves = 0
    /\ exhausted
    /\ Len(issued) >= 3
    /\ index = Len(orig)

\* the value element e holds when no write through get_mut was lost or
\* reverted
ExpectedVal(e) ==
    IF e.id \in mutated THEN written[e.id] ELSE orig[e.id].val

\* C22: deferred cursor with mutable handles.  After cancel_removals the
\* vector has the length it had at cursor creation and holds every original
\* element once; an element written through get_mut holds the value last
\* written to it, every other element its original value.
C22_CancelKeepsWrites ==
    (kind = "confirm" /\ cursor = "cancelled") =>
        /\ Len(vec) = Len(orig)
        /\ IdSet(vec) = IdSet(orig)
        /\ \A k \in 1..Len(vec) : vec[k].val = ExpectedVal(vec[k])

\* a cancel after a removal and after a write that changed the value of an
\* element
C22_Witness ==
    /\ kind = "confirm" /\ cursor = "cancelled"
    /\ nremoves >= 1
    /\ \E k \in 1..Len(vec) :
          /\ vec[k].id \in mutated
          /\ vec[k].val # orig[vec[k].id].val

\* the number of handles a pass is to issue: the length of the vector at
\* cursor creation (base), size at the start of the pass (deferred)
PassSize == IF kind = "base" THEN Len(orig) ELSE pass_size

\* C23 as stated: termination of a pass.  Every advance() returns, either
\* a handle or exhausted; a pass never issues more than PassSize handles,
\* and when advance() returns exhausted the pass has issued exactly
\* PassSize handles, so a loop calling advance() until exhausted ends with
\* the call that follows the last of these handles.
C23_Original ==
    [][Advance =>
          /\ pc' = "run"
          /\ Len(issued') <= PassSize
          /\ exhausted' => Len(issued') = PassSize]_vars

\* C24: deferred cursor, size.  While the cursor is open, size lies between
\* 0 and the length of the vector, the vector has the length it had at
\* cursor creation, size is that length minus the number of removals made
\* so far, and no remove has failed on a size of 0.
C24_SizeInvariant ==
    (kind = "confirm" /\ cursor = "open") =>
        /\ 0 <= size /\ size <= Len(vec)
        /\ Len(vec) = Len(orig)
        /\ size = Len(orig) - nremoves
        /\ nremoves = Cardinality(gone)
        /\ ~(pc = "panic" /\ last.op = "remove")

\* every element of a vector of two or more elements was removed, over
\* more than one pass: size is 0 and the vector still has its length
C24_Witness ==
    /\ kind = "confirm" /\ cursor = "open" /\ pc = "run"
    /\ iterated
    /\ size = 0
    /\ nremoves = Len(orig)
    /\ Len(vec) >= 2

\* the positions of the vector at and above size
RemovedZone == size..(Len(vec) - 1)

\* C25: deferred cursor, the removed elements.  The k-th removal places the
\* element of its handle at index n - k, n being the length of the vector;
\* the positions at and above size hold the removed elements and no other,
\* and no step changes them while the cursor is open nor when it is
\* cancelled or dropped: they hold the removed elements in reverse order of
\* removal.
C25_RemovedZone ==
    [][(kind = "confirm" /\ cursor = "open" /\ pc' # "ub"
          /\ cursor' # "confirmed") =>
          /\ {At(vec, j).id : j \in RemovedZone} = gone
          /\ \A j \in RemovedZone : At(vec', j) = At(vec, j)
          /\ \A h \in HandleIds :
                (Valid(h) /\ remove_value(h)) =>
                   /\ size' = Len(vec) - (nremoves + 1)
                   /\ At(vec', size').id = handles[h].elem
                   /\ handles[h].elem \notin gone]_vars

\* the second and then the third element of a vector of three were removed
\* and the removals cancelled: the vector holds them in reverse order
\* behind the first
C25_Witness ==
    /\ kind = "confirm" /\ cursor = "cancelled"
    /\ nremoves = 2
    /\ Ids(orig) = <<1, 2, 3>>
    /\ Ids(vec) = <<1, 3, 2>>
    /\ size = 1

\* the number of live elements: the length of the vector (base), size
\* (deferred)
LiveSize == IF kind = "base" THEN Len(vec) ELSE size

\* C26: in-bounds handles.  The handle issued by the latest advance(), as
\* long as it is neither consumed nor superseded and its cursor is open, is
\* bound to an index below the length of the vector (base) or below size
\* (deferred), and the element at that index is the one it was issued for;
\* with the guard, a handle that is not rotten is bound to an index below
\* the length of the vector in every state.
C26_InBounds ==
    /\ Valid(CUR) =>
          /\ handles[CUR].index >= 0
          /\ handles[CUR].index < LiveSize
          /\ LiveSize <= Len(vec)
          /\ At(vec, handles[CUR].index).id = handles[CUR].elem
    /\ \A h \in HandleIds :
          (guard /\ Usable(h) /\ ~handles[h].rotten) =>
             handles[h].index < Len(vec)

\* after a removal the handle issued last is bound to the last index of
\* the shortened vector
C26_Witness ==
    /\ kind = "base" /\ pc = "run"
    /\ Valid(CUR)
    /\ last.op = "next"
    /\ nremoves >= 1
    /\ handles[CUR].index = Len(vec) - 1
    /\ handles[CUR].index >= 1

\* C27: with the guard, for both cursors.  The handle issued by the latest
\* advance() is not rotten while its cursor is open, no step other than an
\* advance() or the drop of the base cursor sets its flag, and no operation
\* on it panics.
C27_FreshHandleLive ==
    [][guard =>
          /\ Valid(CUR) => ~handles[CUR].rotten
          /\ (Valid(CUR) /\ HandleOp(CUR)) =>
                (pc' = "run" /\ last'.op # "fault")
          /\ (Usable(CUR) /\ ~handles[CUR].rotten /\ ~Advance /\ ~drop
                 /\ ~handles'[CUR].consumed) =>
                ~handles'[CUR].rotten]_vars

\* with the guard, a write through the handle issued last has gone through
\* after an earlier handle was superseded
C27_Witness ==
    /\ guard /\ pc = "run"
    /\ Valid(CUR)
    /\ last.op = "get_mut"
    /\ Usable(OLD)

\* C28: base cursor.  In every state, when the pending flag removed is set
\* the index is set, and no advance() has panicked on the unwrap of the
\* index.
C28_RemovedHasIndex ==
    kind = "base" =>
        /\ removed => index # None
        /\ ~(pc = "panic" /\ last.op = "next")

\* the pending flag is set after a removal at an index above 0 that left
\* an element to revisit at that index
C28_Witness ==
    /\ kind = "base" /\ pc = "run" /\ cursor = "open"
    /\ removed
    /\ index >= 1
    /\ index < Len(vec)

\* the fields of InplaceVecIterator and of the item its latest call
\* returned, as the record the older cursors are functions of
AsCursor ==
    [vec |-> vec, removed |-> removed, index |-> index,
     owner |-> last_rotten # NoHandle,
     handle |-> IF Usable(CUR) THEN handles[CUR].index ELSE None,
     rotten |-> Usable(CUR) /\ handles[CUR].rotten,
     ret |-> last.ret,
     panic |-> pc = "panic"]

\* the record without the value returned
Silent(c) == [c EXCEPT !.ret = NoValue]

\* C29: the three base cursors.  From equal fields, every advance(), every
\* remove or take through the valid handle, every read through it and the
\* drop of the cursor leave InplaceVecIterator, RemovableVecIterator and
\* TakeableVecIterator with equal fields again: the same vector, the same
\* index and pending flag, a handle bound to the same index or none, and
\* the same value returned.  As all three start from the same fields, they
\* issue the same handles, return exhausted at the same calls and leave the
\* same vector for the same sequence of decisions.
C29_SameBehaviour ==
    [][kind = "base" =>
          /\ next =>
                /\ AsCursor' = RemovableVecIterator_next(AsCursor)
                /\ AsCursor' = TakeableVecIterator_next(AsCursor)
          /\ drop =>
                /\ Silent(AsCursor') = Silent(RemovableVecIterator_drop(AsCursor))
                /\ Silent(AsCursor') = Silent(TakeableVecIterator_drop(AsCursor))
          /\ (Valid(CUR) /\ remove(CUR)) =>
                /\ AsCursor' = RemovableVecItem_remove(AsCursor)
                /\ AsCursor' = Silent(TakeableVecItem_take(AsCursor))
          /\ (Valid(CUR) /\ take(CUR)) =>
                /\ Silent(AsCursor') = RemovableVecItem_remove(AsCursor)
                /\ AsCursor' = TakeableVecItem_take(AsCursor)
          /\ (Valid(CUR) /\ get_value(CUR)) =>
                /\ AsCursor' = RemovableVecItem_get(AsCursor)
                /\ AsCursor' = TakeableVecItem_get(AsCursor)]_vars

\* a pass that took an element out of a vector of three and kept the
\* others has ended, and the cursor was dropped
C29_Witness ==
    /\ kind = "base" /\ pc = "run" /\ cursor = "dropped"
    /\ exhausted
    /\ Len(orig) >= 3
    /\ nremoves = 1
    /\ Ids(vec) # SubSeq(Ids(orig), 1, Len(vec))
    /\ Ids(vec) # SubSeq(Ids(orig), 2, Len(orig))

====
